---- MODULE Spec2Model ----
(***************************************************************************)
(* Model of the data-quality engine of ref/Qplus_v3.py: the rule           *)
(* configuration (dim_map), the ReferenceResolver with its cache and its   *)
(* database path, and DataQualityEngine with its four phases.              *)
(*                                                                         *)
(* Percentages are kept as integer hundredths of a percent (100.0 is       *)
(* 10000), so that round(x, 2) is an integer rounding.                     *)
(***************************************************************************)
EXTENDS Integers, Sequences, FiniteSets, TLC

\* ------------------------------------------------------------------------
\* Bounds of the model
\* ------------------------------------------------------------------------
MaxRows == 2
MaxEntries == 2

\* ------------------------------------------------------------------------
\* Small helpers
\* ------------------------------------------------------------------------
Range(s) == {s[i] : i \in 1..Len(s)}

Put(f, k, v) == [x \in (DOMAIN f) \cup {k} |-> IF x = k THEN v ELSE f[x]]

EmptyMap == [x \in {} |-> 0]

RECURSIVE SumSeq(_)
SumSeq(s) == IF s = <<>> THEN 0 ELSE s[1] + SumSeq(Tail(s))

StartsWith(s, p) == Len(s) >= Len(p) /\ SubSeq(s, 1, Len(p)) = p

RECURSIVE JoinDot(_)
JoinDot(cols) ==
    IF Len(cols) = 0 THEN ""
    ELSE IF Len(cols) = 1 THEN cols[1]
    ELSE cols[1] \o "." \o JoinDot(Tail(cols))

\* ------------------------------------------------------------------------
\* Cells and datasets
\* ------------------------------------------------------------------------
Null == [k |-> "null", n |-> 0, s |-> ""]
Num(i) == [k |-> "num", n |-> i, s |-> ""]
Str(x) == [k |-> "str", n |-> 0, s |-> x]

IsNa(c) == c.k = "null"

\* A dataset: ordered column names, row count, one cell sequence per column.
DfColumns == <<"a", "b", "r">>

MkDf(rows) ==
    [columns |-> DfColumns,
     n |-> Len(rows),
     data |-> [c \in Range(DfColumns) |-> [i \in 1..Len(rows) |-> rows[i][c]]]]

Cols(df) == Range(df.columns)

Idx(df) == 1..df.n

\* ------------------------------------------------------------------------
\* round(x, 2) and the mean of the column scores
\* ------------------------------------------------------------------------
\* num/den rounded to the nearest integer, ties to even (Python's round). The
\* code rounds a float; for a score (a ratio of row counts below 32) and for
\* the mean of up to 3 such scores the float rounds as the exact quotient.
\* Of the longer lists of scores over at most 3 rows only 66.67, 66.67,
\* 66.67, 33.33 rounds otherwise (58.33), a list no run of this model
\* produces.
RoundHalfEven(num, den) ==
    LET q == num \div den
        r == num % den
    IN  IF 2 * r > den THEN q + 1
        ELSE IF 2 * r < den THEN q
        ELSE IF q % 2 = 0 THEN q ELSE q + 1

\* round((part / whole) * 100, 2), in hundredths of a percent
Perc(part, whole) == RoundHalfEven(part * 10000, whole)

\* The last score taken for the score of the dimension
DimPerc_Last(scores) ==
    IF scores = <<>> THEN 10000 ELSE scores[Len(scores)]

\* round(sum(scores) / len(scores), 2) if scores else 100.0
DimPerc(scores) ==
    IF scores = <<>> THEN 10000
    ELSE RoundHalfEven(SumSeq(scores), Len(scores))

\* ------------------------------------------------------------------------
\* Rule configuration (dim_map)
\* ------------------------------------------------------------------------
\* A parameter value: an integer, a string or a list of strings.
PInt(i) == [t |-> "int", n |-> i, s |-> "", l |-> <<>>]
PStr(x) == [t |-> "str", n |-> 0, s |-> x, l |-> <<>>]
PList(xs) == [t |-> "list", n |-> 0, s |-> "", l |-> xs]

\* A params dict in insertion order: a sequence of key/value pairs.
KV(key, val) == [key |-> key, val |-> val]

NoParams == <<>>

HasKey(params, key) == \E i \in 1..Len(params) : params[i].key = key

Param(params, key) == params[CHOOSE i \in 1..Len(params) : params[i].key = key].val

\* One item of an entry: the column (or the columns of a composite key) and
\* the params of that column.
Item(cols, params) == [cols |-> cols, params |-> params]

\* One entry of dim_map: tag -> list of columns ("list"), list of column
\* lists ("lists") or mapping column -> params ("map").
ListEntry(tag, cols) ==
    [tag |-> tag, shape |-> "list",
     items |-> [i \in 1..Len(cols) |-> Item(<<cols[i]>>, NoParams)]]

ListsEntry(tag, keys) ==
    [tag |-> tag, shape |-> "lists",
     items |-> [i \in 1..Len(keys) |-> Item(keys[i], NoParams)]]

MapEntry(tag, items) == [tag |-> tag, shape |-> "map", items |-> items]

\* dim_map.get(tag, []): the items of the entry with that tag
GetItems(dim_map, tag) ==
    IF \E i \in 1..Len(dim_map) : dim_map[i].tag = tag
    THEN dim_map[CHOOSE i \in 1..Len(dim_map) : dim_map[i].tag = tag].items
    ELSE <<>>

\* The (rule_type, col, params) triples the nested loops of a phase visit, in
\* order: entries whose tag has the prefix and whose value is not empty.
RECURSIVE Worklist(_, _)
Worklist(dim_map, prefix) ==
    IF dim_map = <<>> THEN <<>>
    ELSE LET e == Head(dim_map)
             rest == Worklist(Tail(dim_map), prefix)
         IN  IF ~StartsWith(e.tag, prefix) \/ e.items = <<>>
             THEN rest
             ELSE [i \in 1..Len(e.items) |->
                      [rule |-> e.tag, col |-> e.items[i].cols[1],
                       params |-> e.items[i].params]] \o rest

\* ------------------------------------------------------------------------
\* get_req_col
\* ------------------------------------------------------------------------
\* required_cols.update(cols) for every cols of a list of lists, or
\* required_cols.update(config) for a list of names
UpdateFromList(required, items) ==
    required \cup UNION {Range(items[i].cols) : i \in 1..Len(items)}

\* The loop over config.items() of a mapping without the compare_to branch
RECURSIVE UpdateFromDict_KeysOnly(_, _)
UpdateFromDict_KeysOnly(required, items) ==
    IF items = <<>> THEN required
    ELSE UpdateFromDict_KeysOnly(required \cup {Head(items).cols[1]}, Tail(items))

\* The loop over config.items() of a mapping: the key, and the value under
\* compare_to when the params have one
RECURSIVE UpdateFromDict(_, _)
UpdateFromDict(required, items) ==
    IF items = <<>> THEN required
    ELSE LET col == Head(items).cols[1]
             params == Head(items).params
             with_col == required \cup {col}
         IN  UpdateFromDict(
                 IF HasKey(params, "compare_to")
                 THEN with_col \cup {Param(params, "compare_to").s}
                 ELSE with_col,
                 Tail(items))

\* The loop over dim_map.items()
RECURSIVE ReqLoop(_, _)
ReqLoop(dm, required) ==
    IF dm = <<>> THEN required
    ELSE LET config == Head(dm) IN
         ReqLoop(Tail(dm),
                 IF config.shape \in {"list", "lists"}
                 THEN UpdateFromList(required, config.items)
                 ELSE UpdateFromDict(required, config.items))

get_req_col(dm) == ReqLoop(dm, {})

\* ------------------------------------------------------------------------
\* Row flag matrix
\* ------------------------------------------------------------------------
\* pd.DataFrame(index=self.df.index): no column, one row per dataset row
EmptyFlags(n) == [columns |-> <<>>, n |-> n, data |-> EmptyMap]

\* A flag column added by concatenation: a name that exists already is
\* listed once more
SetFlag_Append(rf, name, vals) ==
    [columns |-> Append(rf.columns, name),
     n |-> rf.n,
     data |-> Put(rf.data, name, vals)]

\* self.row_flags[flag_col] = values
SetFlag(rf, name, vals) ==
    [columns |-> IF name \in Range(rf.columns) THEN rf.columns
                 ELSE Append(rf.columns, name),
     n |-> rf.n,
     data |-> Put(rf.data, name, vals)]

\* mask.astype("int8")
AsInt8(mask) == [i \in DOMAIN mask |-> IF mask[i] THEN 1 ELSE 0]

CountTrue(mask) == Cardinality({i \in DOMAIN mask : mask[i]})

\* pd.concat([df, row_flags], axis=1)
Concat(df, rf) ==
    [columns |-> df.columns \o rf.columns,
     n |-> df.n,
     data |-> [c \in Cols(df) \cup Range(rf.columns) |->
                  IF c \in Range(rf.columns) THEN rf.data[c] ELSE df.data[c]]]

\* ------------------------------------------------------------------------
\* Completeness phase
\* ------------------------------------------------------------------------
\* null_mask stored as the flag instead of ~null_mask
NonNullMask_Null(df, col) == [i \in Idx(df) |-> IsNa(df.data[col][i])]

NonNullMask(df, col) == [i \in Idx(df) |-> ~IsNa(df.data[col][i])]

\* The loop over the configured columns. self.df[col] raises KeyError for a
\* column the dataset lacks; the division raises ZeroDivisionError for a
\* dataset without rows, after the flag column was stored.
RECURSIVE ComplLoop(_, _, _, _)
ComplLoop(df, total_rows, columns, acc) ==
    IF columns = <<>> THEN acc
    ELSE LET col == Head(columns).cols[1] IN
         IF col \notin Cols(df) THEN [acc EXCEPT !.err = "KeyError"]
         ELSE LET present == NonNullMask(df, col)
                  null_count == df.n - CountTrue(present)
                  flags1 == SetFlag(acc.flags, "completeness." \o col, AsInt8(present))
                  non_nulls == total_rows - null_count
              IN  IF total_rows = 0
                  THEN [acc EXCEPT !.flags = flags1, !.err = "ZeroDivisionError"]
                  ELSE ComplLoop(df, total_rows, Tail(columns),
                         [flags |-> flags1,
                          results |-> Put(acc.results, col,
                                        [null_count |-> null_count,
                                         rows_evaluated |-> total_rows,
                                         col_perc |-> Perc(non_nulls, total_rows)]),
                          scores |-> Append(acc.scores, Perc(non_nulls, total_rows)),
                          err |-> "none"])

EmptyAcc(flags) == [flags |-> flags, results |-> EmptyMap, scores |-> <<>>, err |-> "none"]

\* _check_completeness: the flags after the phase, the exception raised (or
\* "none") and the dimension entry written to the report.
check_completeness(df, total_rows, dim_map, flags) ==
    LET columns == GetItems(dim_map, "completeness")
        acc == ComplLoop(df, total_rows, columns, EmptyAcc(flags))
    IN  IF columns = <<>>
        THEN [df |-> df, flags |-> flags, err |-> "none", scores |-> <<>>,
              dim |-> [columns |-> EmptyMap, dim_perc |-> 10000]]
        ELSE [df |-> df, flags |-> acc.flags, err |-> acc.err, scores |-> acc.scores,
              dim |-> [columns |-> acc.results, dim_perc |-> DimPerc(acc.scores)]]

\* ------------------------------------------------------------------------
\* Uniqueness phase
\* ------------------------------------------------------------------------
KeyOf(df, cols, i) == [j \in 1..Len(cols) |-> df.data[cols[j]][i]]

\* df.dropna(subset=cols): the rows without a null in any key column
EvalRows(df, cols) ==
    {i \in Idx(df) : \A j \in 1..Len(cols) : ~IsNa(df.data[cols[j]][i])}

\* df.duplicated(subset=cols): the first row of a group of equal rows is not
\* marked
DupMaskAll_KeepFirst(df, cols) ==
    [i \in Idx(df) |-> \E j \in Idx(df) : j < i /\ KeyOf(df, cols, j) = KeyOf(df, cols, i)]

\* df.duplicated(subset=cols, keep=False): nulls compare equal to nulls
DupMaskAll(df, cols) ==
    [i \in Idx(df) |-> \E j \in Idx(df) : j # i /\ KeyOf(df, cols, j) = KeyOf(df, cols, i)]

\* df_eval.duplicated(subset=cols, keep=False).sum(): every row of a group
\* of equal rows is counted, the first one too
DupCount_KeepFalse(df, cols) ==
    Cardinality({i \in EvalRows(df, cols) :
        \E j \in EvalRows(df, cols) : j # i /\ KeyOf(df, cols, j) = KeyOf(df, cols, i)})

\* df_eval.duplicated(subset=cols).sum(): rows equal to an earlier row
DupCount(df, cols) ==
    Cardinality({i \in EvalRows(df, cols) :
        \E j \in EvalRows(df, cols) : j < i /\ KeyOf(df, cols, j) = KeyOf(df, cols, i)})

UniqScore(df, cols) ==
    LET rows_evaluated == Cardinality(EvalRows(df, cols))
        dup_count == IF rows_evaluated = 0 THEN 0 ELSE DupCount(df, cols)
        valid == rows_evaluated - dup_count
    IN  [duplicate_count |-> dup_count,
         rows_evaluated |-> rows_evaluated,
         col_perc |-> IF rows_evaluated = 0 THEN 10000 ELSE Perc(valid, rows_evaluated)]

\* The flag taken from df_eval: the rows with a null in the key have none
UniqFlags_Evaluated(df, cols) ==
    AsInt8([i \in EvalRows(df, cols) |-> ~DupMaskAll(df, cols)[i]])

UniqFlags(df, cols) == AsInt8([i \in Idx(df) |-> ~DupMaskAll(df, cols)[i]])

RECURSIVE UniqSingLoop(_, _, _)
UniqSingLoop(df, items, acc) ==
    IF items = <<>> THEN acc
    ELSE LET col == Head(items).cols[1] IN
         IF col \notin Cols(df) THEN UniqSingLoop(df, Tail(items), acc)
         ELSE LET sc == UniqScore(df, <<col>>) IN
              UniqSingLoop(df, Tail(items),
                [flags |-> SetFlag(acc.flags, "uniq_sing." \o col, UniqFlags(df, <<col>>)),
                 results |-> Put(acc.results, col, sc),
                 scores |-> Append(acc.scores, sc.col_perc),
                 err |-> "none"])

RECURSIVE UniqMultLoop(_, _, _)
UniqMultLoop(df, items, acc) ==
    IF items = <<>> THEN acc
    ELSE LET cols == Head(items).cols IN
         IF ~(Range(cols) \subseteq Cols(df)) THEN UniqMultLoop(df, Tail(items), acc)
         ELSE LET sc == UniqScore(df, cols)
                  key_name == JoinDot(cols)
              IN  UniqMultLoop(df, Tail(items),
                    [flags |-> SetFlag(acc.flags, "uniq_mult." \o key_name, UniqFlags(df, cols)),
                     results |-> Put(acc.results, key_name,
                                   [columns_used |-> cols,
                                    duplicate_count |-> sc.duplicate_count,
                                    rows_evaluated |-> sc.rows_evaluated,
                                    col_perc |-> sc.col_perc]),
                     scores |-> Append(acc.scores, sc.col_perc),
                     err |-> "none"])

\* _check_uniqueness with self.df = self.df.dropna(subset=[col]) for the
\* single-key columns
check_uniqueness_InPlace(df, dim_map, flags) ==
    LET sing == UniqSingLoop(df, GetItems(dim_map, "uniq_sing"), EmptyAcc(flags))
        mult == UniqMultLoop(df, GetItems(dim_map, "uniq_mult"),
                  [flags |-> sing.flags, results |-> EmptyMap,
                   scores |-> sing.scores, err |-> "none"])
        used == {c \in Cols(df) : \E i \in 1..Len(GetItems(dim_map, "uniq_sing")) :
                                     GetItems(dim_map, "uniq_sing")[i].cols[1] = c}
        keep == {i \in Idx(df) : \A c \in used : ~IsNa(df.data[c][i])}
        pos == [k \in 1..Cardinality(keep) |->
                   CHOOSE i \in keep : Cardinality({j \in keep : j < i}) = k - 1]
    IN  [df |-> [columns |-> df.columns, n |-> Cardinality(keep),
                 data |-> [c \in Cols(df) |->
                             [k \in 1..Cardinality(keep) |-> df.data[c][pos[k]]]]],
         flags |-> mult.flags, err |-> "none", scores |-> mult.scores,
         dim |-> [uniq_sing |-> sing.results,
                  uniq_mult |-> mult.results,
                  dim_perc |-> DimPerc(mult.scores)]]

\* _check_uniqueness
check_uniqueness(df, dim_map, flags) ==
    LET sing == UniqSingLoop(df, GetItems(dim_map, "uniq_sing"), EmptyAcc(flags))
        mult == UniqMultLoop(df, GetItems(dim_map, "uniq_mult"),
                  [flags |-> sing.flags, results |-> EmptyMap,
                   scores |-> sing.scores, err |-> "none"])
    IN  [df |-> df, flags |-> mult.flags, err |-> "none", scores |-> mult.scores,
         dim |-> [uniq_sing |-> sing.results,
                  uniq_mult |-> mult.results,
                  dim_perc |-> DimPerc(mult.scores)]]

\* ------------------------------------------------------------------------
\* Validity phase
\* ------------------------------------------------------------------------
ValidityKinds ==
    {"vali_val_pos", "vali_val_neg", "vali_val_rang", "vali_high_val",
     "vali_low_val", "vali_high_col", "vali_low_col", "vali_list_str"}

ColumnKinds == {"vali_high_col", "vali_low_col"}

\* VALIDITY_RULES with s >= 0, s <= 0, s >= threshold, s <= threshold and
\* s >= df[compare_to], s <= df[compare_to]
VALIDITY_RULES_NonStrict(rule, c, p, other) ==
    CASE rule = "vali_val_pos"  -> c.n >= 0
      [] rule = "vali_val_neg"  -> c.n <= 0
      [] rule = "vali_val_rang" -> Param(p, "min").n <= c.n /\ c.n <= Param(p, "max").n
      [] rule = "vali_high_val" -> c.n >= Param(p, "threshold").n
      [] rule = "vali_low_val"  -> c.n <= Param(p, "threshold").n
      [] rule = "vali_high_col" -> ~IsNa(other) /\ c.n >= other.n
      [] rule = "vali_low_col"  -> ~IsNa(other) /\ c.n <= other.n
      [] rule = "vali_list_str" -> c.k = "str" /\ c.s \in Range(Param(p, "values").l)

\* VALIDITY_RULES[rule](s, p[, df]) on one non-null value c; other is the
\* value of the compare_to column in the same row. A comparison with a null
\* is false. The numeric kinds are configured on numeric columns only.
VALIDITY_RULES(rule, c, p, other) ==
    CASE rule = "vali_val_pos"  -> c.n > 0
      [] rule = "vali_val_neg"  -> c.n < 0
      [] rule = "vali_val_rang" -> Param(p, "min").n <= c.n /\ c.n <= Param(p, "max").n
      [] rule = "vali_high_val" -> c.n > Param(p, "threshold").n
      [] rule = "vali_low_val"  -> c.n < Param(p, "threshold").n
      [] rule = "vali_high_col" -> ~IsNa(other) /\ c.n > other.n
      [] rule = "vali_low_col"  -> ~IsNa(other) /\ c.n < other.n
      [] rule = "vali_list_str" -> c.k = "str" /\ c.s \in Range(Param(p, "values").l)

\* The exception the dispatch of one rule raises on a column with evaluated
\* rows: the compare_to column is looked up in the dataset, the rule kind in
\* VALIDITY_RULES.
ValidityDispatchError(df, rule, p) ==
    IF rule \in ColumnKinds
    THEN IF Param(p, "compare_to").s \in Cols(df) THEN "none" ELSE "KeyError"
    ELSE IF rule \in ValidityKinds THEN "none" ELSE "KeyError"

NonNullRows(df, col) == {i \in Idx(df) : ~IsNa(df.data[col][i])}

\* int(valid_mask.sum())
ValidCountFull(valid_mask, full_mask) == CountTrue(full_mask)

ValidCount(valid_mask, full_mask) == CountTrue(valid_mask)

\* Score with full_mask = pd.Series(False, index=self.df.index): a row
\* outside the evaluated population is flagged 0
Score_NullFails(df, col, rule, params, valid_mask) ==
    LET non_null == NonNullRows(df, col)
        rows_evaluated == Cardinality(non_null)
        full_mask == [i \in Idx(df) |-> IF i \in non_null THEN valid_mask[i] ELSE FALSE]
        valid_count == ValidCount(valid_mask, full_mask)
    IN  [flag |-> AsInt8(full_mask),
         entry |-> [rule |-> rule,
                    invalid_count |-> IF rows_evaluated = 0 THEN 0
                                      ELSE rows_evaluated - valid_count,
                    rows_evaluated |-> rows_evaluated,
                    col_perc |-> IF rows_evaluated = 0 THEN 10000
                                 ELSE Perc(valid_count, rows_evaluated),
                    rule_params |-> params]]

\* The statistics and the flag column of one (rule, column) pair whose
\* predicate was evaluated to valid_mask on the non-null rows.
Score(df, col, rule, params, valid_mask) ==
    LET non_null == NonNullRows(df, col)
        rows_evaluated == Cardinality(non_null)
        full_mask == [i \in Idx(df) |-> IF i \in non_null THEN valid_mask[i] ELSE TRUE]
        valid_count == ValidCount(valid_mask, full_mask)
    IN  [flag |-> AsInt8(full_mask),
         entry |-> [rule |-> rule,
                    invalid_count |-> IF rows_evaluated = 0 THEN 0
                                      ELSE rows_evaluated - valid_count,
                    rows_evaluated |-> rows_evaluated,
                    col_perc |-> IF rows_evaluated = 0 THEN 10000
                                 ELSE Perc(valid_count, rows_evaluated),
                    rule_params |-> params]]

ValidityMask(df, col, rule, params) ==
    [i \in NonNullRows(df, col) |->
        VALIDITY_RULES(rule, df.data[col][i], params,
            IF rule \in ColumnKinds
            THEN df.data[Param(params, "compare_to").s][i] ELSE Null)]

\* Store the flag column and the report entry of one evaluated pair.
Record(acc, flag_col, col, sc) ==
    [flags |-> SetFlag(acc.flags, flag_col, sc.flag),
     results |-> Put(acc.results, col, sc.entry),
     scores |-> Append(acc.scores, sc.entry.col_perc),
     err |-> "none"]

RECURSIVE ValiLoop(_, _, _)
ValiLoop(df, work, acc) ==
    IF work = <<>> THEN acc
    ELSE LET w == Head(work) IN
         IF w.col \notin Cols(df) THEN ValiLoop(df, Tail(work), acc)
         ELSE IF NonNullRows(df, w.col) = {}
         THEN ValiLoop(df, Tail(work),
                Record(acc, w.rule \o "." \o w.col, w.col,
                       Score(df, w.col, w.rule, w.params, <<>>)))
         ELSE IF ValidityDispatchError(df, w.rule, w.params) # "none"
         THEN [acc EXCEPT !.err = ValidityDispatchError(df, w.rule, w.params)]
         ELSE ValiLoop(df, Tail(work),
                Record(acc, w.rule \o "." \o w.col, w.col,
                       Score(df, w.col, w.rule, w.params,
                             ValidityMask(df, w.col, w.rule, w.params))))

\* _check_validity
check_validity(df, dim_map, flags) ==
    LET acc == ValiLoop(df, Worklist(dim_map, "vali_"), EmptyAcc(flags))
    IN  [df |-> df, flags |-> acc.flags, err |-> acc.err, scores |-> acc.scores,
         dim |-> [columns |-> acc.results, dim_perc |-> DimPerc(acc.scores)]]

\* ------------------------------------------------------------------------
\* Reference resolver
\* ------------------------------------------------------------------------
Digits == <<"0", "1", "2", "3", "4", "5", "6", "7", "8", "9">>

\* str(n) of an integer
RECURSIVE IntStr(_)
IntStr(n) ==
    IF n < 0 THEN "-" \o IntStr(0 - n)
    ELSE IF n < 10 THEN Digits[n + 1]
    ELSE IntStr(n \div 10) \o Digits[(n % 10) + 1]

RECURSIVE ReprList(_)
ReprList(xs) ==
    IF xs = <<>> THEN ""
    ELSE IF Len(xs) = 1 THEN "'" \o xs[1] \o "'"
    ELSE "'" \o xs[1] \o "', " \o ReprList(Tail(xs))

\* repr of a parameter value
ReprVal(v) ==
    CASE v.t = "int"  -> IntStr(v.n)
      [] v.t = "str"  -> "'" \o v.s \o "'"
      [] v.t = "list" -> "[" \o ReprList(v.l) \o "]"

RECURSIVE ReprPairs(_)
ReprPairs(params) ==
    IF params = <<>> THEN ""
    ELSE "'" \o params[1].key \o "': " \o ReprVal(params[1].val)
         \o (IF Len(params) = 1 THEN "" ELSE ", " \o ReprPairs(Tail(params)))

\* str(params) of a dict, in insertion order
StrParams(params) == "{" \o ReprPairs(params) \o "}"

\* cache_key = f"{rule_type}_{str(params)}"
CacheKey(rule_type, params) == rule_type \o "_" \o StrParams(params)

\* if cache_key in self.cache
CacheHitTruthy(cache, key) == key \in DOMAIN cache /\ cache[key] # {}

CacheHit(cache, key) == key \in DOMAIN cache

\* astype(str) of one non-null value: a numeric column that holds a null is a
\* float column, and its values print with a fraction.
AsStr(df, col, c) ==
    IF c.k = "str" THEN c.s
    ELSE IF \E i \in Idx(df) : IsNa(df.data[col][i]) THEN IntStr(c.n) \o ".0"
    ELSE IntStr(c.n)

\* set(column.dropna().astype(str)) of a reference column holding strings
RefSet(cells) == {cells[i].s : i \in {j \in 1..Len(cells) : ~IsNa(cells[j])}}

\* The reference files and the database tables of the environment.
RefCsv(csv_path, ref_col) == <<Str("PM"), Null, Str("SK")>>

RefSql(table, ref_col) == <<Str("PM"), Str("SB")>>

ConsistencyKinds == {"cons_list_str", "cons_uplo_csv", "cons_conn_sql"}

\* A rule that lets every value pass when the reference set is empty
ConsistencyMask_EmptyPasses(df, col, ref) ==
    [i \in NonNullRows(df, col) |-> ref = {} \/ AsStr(df, col, df.data[col][i]) \in ref]

\* CONSISTENCY_RULES[rule](s, ref): s.astype(str).isin(ref) on the non-null rows
ConsistencyMask(df, col, ref) ==
    [i \in NonNullRows(df, col) |-> AsStr(df, col, df.data[col][i]) \in ref]

\* if not self.db_config: return set()
NoDbConfigNever(db) == FALSE

NoDbConfig(db) == ~db

\* max_retries of get_database_connection and the seconds of its time.sleep
max_retries == 3

SleepSeconds == 2

\* ------------------------------------------------------------------------
\* State
\* ------------------------------------------------------------------------
NumRuns == 2

Runs == 1..NumRuns

Engines == 1..NumRuns

VARIABLES
    required_cols, \* the calls of get_req_col made so far and their results
    callerDf,   \* the dataset the caller passed to the constructors
    dim_map,    \* the rule configuration the caller passed
    db_config,  \* TRUE when a database configuration was passed
    eng,        \* the fields of each DataQualityEngine instance
    run         \* the frame of each call of run(): position, locals, resolver
                \* cache, and the record of what the call did (phases, the
                \* col_scores list of each finished phase, trace and seconds
                \* slept of the last connection loop, loads and hits per
                \* cache key)

vars == <<required_cols, callerDf, dim_map, db_config, eng, run>>

\* No call of get_req_col was made yet.
NoCalls == <<>>

\* The calls of get_req_col the pipeline makes: one in input_file_parq, one
\* for monitoring after the run.
PipelineCalls == 2

\* DataQualityEngine.__init__; generated_at is the instant of construction
EngineInit(df, e) ==
    [df |-> df,
     total_rows |-> df.n,
     report |-> [generated_at |-> e, total_rows |-> df.n, dimensions |-> EmptyMap],
     row_flags |-> EmptyFlags(df.n)]

NoRet == [returned |-> FALSE, enriched |-> MkDf(<<>>), report |-> 0]

NewRun(e, pc) ==
    [engine |-> e, pc |-> pc, step |-> 0, err |-> "none", phases |-> <<>>,
     cache |-> EmptyMap, work |-> <<>>, results |-> EmptyMap, scores |-> <<>>,
     attempt |-> 0, trace |-> <<>>, slept |-> 0, conn |-> "none",
     sqlkey |-> "", loads |-> EmptyMap, hits |-> EmptyMap, col_scores |-> EmptyMap,
     ret |-> NoRet]

\* run() calling _check_validity before _check_uniqueness
RunOrder_Swapped == <<"completeness", "validity", "uniqueness", "consistency">>

\* The order in which run() calls the phases.
RunOrder == <<"completeness", "uniqueness", "validity", "consistency">>

AtPhase(r, name) ==
    /\ run[r].pc = "phase"
    /\ run[r].step < Len(RunOrder)
    /\ RunOrder[run[r].step + 1] = name

\* The effect of one phase that ran to its end or raised: the flag columns it
\* stored, the dimension entry it wrote, and the position of run().
ApplyPhase(r, name, res) ==
    LET e == run[r].engine IN
    /\ eng' = [eng EXCEPT ![e].df = res.df,
                          ![e].row_flags = res.flags,
                          ![e].report.dimensions =
                              IF res.err = "none" THEN Put(@, name, res.dim) ELSE @]
    /\ run' = [run EXCEPT ![r].phases = Append(@, name),
                          ![r].col_scores =
                              IF res.err = "none" THEN Put(@, name, res.scores) ELSE @,
                          ![r].step = IF res.err = "none" THEN @ + 1 ELSE @,
                          ![r].pc = IF res.err = "none" THEN "phase" ELSE "aborted",
                          ![r].err = res.err]
    /\ UNCHANGED <<required_cols, callerDf, dim_map, db_config>>

CheckCompleteness(r) ==
    /\ AtPhase(r, "completeness")
    /\ ApplyPhase(r, "completeness",
         check_completeness(eng[run[r].engine].df, eng[run[r].engine].total_rows,
                            dim_map, eng[run[r].engine].row_flags))

CheckUniqueness(r) ==
    /\ AtPhase(r, "uniqueness")
    /\ ApplyPhase(r, "uniqueness",
         check_uniqueness(eng[run[r].engine].df, dim_map, eng[run[r].engine].row_flags))

CheckValidity(r) ==
    /\ AtPhase(r, "validity")
    /\ ApplyPhase(r, "validity",
         check_validity(eng[run[r].engine].df, dim_map, eng[run[r].engine].row_flags))

\* ------------------------------------------------------------------------
\* Consistency phase, one step per interaction with the environment
\* ------------------------------------------------------------------------
\* _check_consistency up to its loop: a new resolver with an empty cache
ConsBegin(r) ==
    /\ AtPhase(r, "consistency")
    /\ run' = [run EXCEPT ![r].phases = Append(@, "consistency"),
                          ![r].pc = "cons_loop",
                          ![r].cache = EmptyMap,
                          ![r].results = EmptyMap,
                          ![r].scores = <<>>,
                          ![r].work = Worklist(dim_map, "cons_")]
    /\ UNCHANGED <<required_cols, callerDf, dim_map, db_config, eng>>

CurKey(rn) == CacheKey(Head(rn.work).rule, Head(rn.work).params)

Bump(f, k) == Put(f, k, IF k \in DOMAIN f THEN f[k] + 1 ELSE 1)

\* The run frame and the engine after the head item was evaluated against ref.
ItemScore(rn, ref) ==
    LET w == Head(rn.work)
        df == eng[rn.engine].df
    IN  Score(df, w.col, w.rule, w.params, ConsistencyMask(df, w.col, ref))

ItemDone(rn, ref) ==
    [rn EXCEPT !.work = Tail(@),
               !.pc = "cons_loop",
               !.results = Put(@, Head(rn.work).col, ItemScore(rn, ref).entry),
               !.scores = Append(@, ItemScore(rn, ref).entry.col_perc)]

FlagsDone(rn, ref) ==
    [eng EXCEPT ![rn.engine].row_flags =
        SetFlag(@, Head(rn.work).rule \o "." \o Head(rn.work).col, ItemScore(rn, ref).flag)]

\* resolve() stores the set it resolved, then the item is evaluated
Resolved(rn, ref) == ItemDone([rn EXCEPT !.cache = Put(@, CurKey(rn), ref)], ref)

Raise(rn, err) == [rn EXCEPT !.pc = "aborted", !.err = err]

\* One turn of the loop over the consistency items, up to the point where
\* resolve() needs the database.
ConsItem(r) ==
    LET rn == run[r]
        w == Head(rn.work)
        df == eng[rn.engine].df
        key == CurKey(rn)
    IN
    /\ rn.pc = "cons_loop"
    /\ rn.work # <<>>
    /\ UNCHANGED <<required_cols, callerDf, dim_map, db_config>>
    /\ IF w.col \notin Cols(df)
       THEN /\ run' = [run EXCEPT ![r].work = Tail(@)]
            /\ UNCHANGED eng
       ELSE IF NonNullRows(df, w.col) = {}
       THEN /\ run' = [run EXCEPT ![r] = ItemDone(rn, {})]
            /\ eng' = FlagsDone(rn, {})
       ELSE IF CacheHit(rn.cache, key)
       THEN /\ run' = [run EXCEPT ![r] =
                         ItemDone([rn EXCEPT !.hits = Bump(@, key)], rn.cache[key])]
            /\ eng' = FlagsDone(rn, rn.cache[key])
       ELSE IF w.rule = "cons_list_str"
       THEN /\ run' = [run EXCEPT ![r] = Resolved(rn, Range(Param(w.params, "values").l))]
            /\ eng' = FlagsDone(rn, Range(Param(w.params, "values").l))
       ELSE IF w.rule = "cons_uplo_csv"
       THEN \E readable \in BOOLEAN :
              LET ref == RefSet(RefCsv(Param(w.params, "csv_path").s,
                                       Param(w.params, "ref_col").s))
                  rl == [rn EXCEPT !.loads = Bump(@, key)]
              IN  IF readable
                  THEN /\ run' = [run EXCEPT ![r] = Resolved(rl, ref)]
                       /\ eng' = FlagsDone(rn, ref)
                  ELSE /\ run' = [run EXCEPT ![r] = Raise(rl, "FileNotFoundError")]
                       /\ UNCHANGED eng
       ELSE IF w.rule = "cons_conn_sql"
       THEN LET rl == [rn EXCEPT !.loads = Bump(@, key)] IN
            IF NoDbConfig(db_config)
            THEN /\ run' = [run EXCEPT ![r] = Resolved(rl, {})]
                 /\ eng' = FlagsDone(rn, {})
            ELSE /\ run' = [run EXCEPT ![r] =
                              [rl EXCEPT !.pc = "connect", !.attempt = 0,
                                         !.trace = <<>>, !.slept = 0,
                                         !.conn = "none", !.sqlkey = key]]
                 /\ UNCHANGED eng
       ELSE /\ run' = [run EXCEPT ![r] = Raise(rn, "ValueError")]
            /\ UNCHANGED eng

\* get_database_connection testing attempt == max_retries: the last failure is
\* followed by a sleep too, and the loop ends with None after it.
ConnAttempt_SleepAfterLast(r) ==
    LET rn == run[r] IN
    /\ rn.pc = "connect"
    /\ UNCHANGED <<required_cols, callerDf, dim_map, db_config>>
    /\ IF rn.attempt >= max_retries
       THEN /\ run' = [run EXCEPT ![r] = Resolved(rn, {})]
            /\ eng' = FlagsDone(rn, {})
       ELSE \E connected \in BOOLEAN :
              IF connected
              THEN /\ run' = [run EXCEPT ![r].trace = Append(@, "connected"),
                                         ![r].conn = "open",
                                         ![r].pc = "query"]
                   /\ UNCHANGED eng
              ELSE /\ run' = [run EXCEPT ![r].trace = Append(@, "failed"),
                                         ![r].pc = "sleep"]
                   /\ UNCHANGED eng

\* One turn of the loop of get_database_connection: pyodbc.connect succeeds or
\* raises; after the last failure the function returns None, _load_from_sql an
\* empty set, and the item is evaluated.
ConnAttempt(r) ==
    LET rn == run[r] IN
    /\ rn.pc = "connect"
    /\ UNCHANGED <<required_cols, callerDf, dim_map, db_config>>
    /\ \E connected \in BOOLEAN :
         IF connected
         THEN /\ run' = [run EXCEPT ![r].trace = Append(@, "connected"),
                                    ![r].conn = "open",
                                    ![r].pc = "query"]
              /\ UNCHANGED eng
         ELSE IF rn.attempt = max_retries - 1
         THEN /\ run' = [run EXCEPT ![r] =
                           Resolved([rn EXCEPT !.trace = Append(@, "failed")], {})]
              /\ eng' = FlagsDone(rn, {})
         ELSE /\ run' = [run EXCEPT ![r].trace = Append(@, "failed"),
                                    ![r].pc = "sleep"]
              /\ UNCHANGED eng

\* time.sleep(2) and the next turn of the loop
Sleep(r) ==
    /\ run[r].pc = "sleep"
    /\ run' = [run EXCEPT ![r].trace = Append(@, "sleep"),
                          ![r].slept = @ + SleepSeconds,
                          ![r].attempt = @ + 1,
                          ![r].pc = "connect"]
    /\ UNCHANGED <<required_cols, callerDf, dim_map, db_config, eng>>

\* safe_close_connection(conn) on a connection: conn.close() returns or
\* raises, and what it raises is swallowed.
Closed(rn, closes) == [rn EXCEPT !.conn = IF closes THEN "closed" ELSE "close_failed"]

\* _load_from_sql with conn.close() called after pd.read_sql, outside any
\* try: a failed query leaves the connection open, and a failed close raises
\* in place of the result.
Query_CloseInline(r) ==
    LET rn == run[r]
        w == Head(rn.work)
    IN
    /\ rn.pc = "query"
    /\ UNCHANGED <<required_cols, callerDf, dim_map, db_config>>
    /\ \E answered, closes \in BOOLEAN :
         LET ref == RefSet(RefSql(Param(w.params, "table").s, Param(w.params, "ref_col").s))
         IN  IF answered /\ closes
             THEN /\ run' = [run EXCEPT ![r] = Resolved(Closed(rn, closes), ref)]
                  /\ eng' = FlagsDone(rn, ref)
             ELSE IF answered
             THEN /\ run' = [run EXCEPT ![r] = Raise(Closed(rn, closes), "Error")]
                  /\ UNCHANGED eng
             ELSE /\ run' = [run EXCEPT ![r] = Raise(rn, "DatabaseError")]
                  /\ UNCHANGED eng

\* The try/finally of _load_from_sql: pd.read_sql returns the column or
\* raises; safe_close_connection is called on the connection either way, and
\* the result or the exception of the query is what leaves the function.
Query(r) ==
    LET rn == run[r]
        w == Head(rn.work)
    IN
    /\ rn.pc = "query"
    /\ UNCHANGED <<required_cols, callerDf, dim_map, db_config>>
    /\ \E answered, closes \in BOOLEAN :
         LET ref == RefSet(RefSql(Param(w.params, "table").s, Param(w.params, "ref_col").s))
             rc == Closed(rn, closes)
         IN  IF answered
             THEN /\ run' = [run EXCEPT ![r] = Resolved(rc, ref)]
                  /\ eng' = FlagsDone(rn, ref)
             ELSE /\ run' = [run EXCEPT ![r] = Raise(rc, "DatabaseError")]
                  /\ UNCHANGED eng

\* The end of _check_consistency: the dimension entry is written
ConsEnd(r) ==
    LET rn == run[r] IN
    /\ rn.pc = "cons_loop"
    /\ rn.work = <<>>
    /\ eng' = [eng EXCEPT ![rn.engine].report.dimensions =
                 Put(@, "consistency",
                     [columns |-> rn.results, dim_perc |-> DimPerc(rn.scores)])]
    /\ run' = [run EXCEPT ![r].pc = "phase", ![r].step = @ + 1,
                          ![r].col_scores = Put(@, "consistency", rn.scores)]
    /\ UNCHANGED <<required_cols, callerDf, dim_map, db_config>>

\* The end of run(): the concatenation and the return of (enriched_df,
\* self.report); the report is returned by reference.
Return(r) ==
    LET e == run[r].engine IN
    /\ run[r].pc = "phase"
    /\ run[r].step = Len(RunOrder)
    /\ run' = [run EXCEPT ![r].pc = "done",
                          ![r].ret = [returned |-> TRUE,
                                      enriched |-> Concat(eng[e].df, eng[e].row_flags),
                                      report |-> e]]
    /\ UNCHANGED <<required_cols, callerDf, dim_map, db_config, eng>>

Next ==
    \E r \in Runs :
        \/ CheckCompleteness(r)
        \/ CheckUniqueness(r)
        \/ CheckValidity(r)
        \/ ConsBegin(r)
        \/ ConsItem(r)
        \/ ConnAttempt(r)
        \/ Sleep(r)
        \/ Query(r)
        \/ ConsEnd(r)
        \/ Return(r)

\* ------------------------------------------------------------------------
\* Inputs
\* ------------------------------------------------------------------------
Row(a, b, r) == [a |-> a, b |-> b, r |-> r]

RowPool ==
    {Row(Num(1), Num(0), Str("PM")),
     Row(Null, Num(1), Str("XX")),
     Row(Num(0), Num(1), Null)}

UpTo(S, n) == UNION {[1..k -> S] : k \in 0..n}

Datasets == {MkDf(rows) : rows \in UpTo(RowPool, MaxRows)}

CsvParams == <<KV("csv_path", PStr("geo.csv")), KV("ref_col", PStr("Name"))>>

SqlParams == <<KV("table", PStr("dbo.Region")), KV("ref_col", PStr("RegionName"))>>

\* Column z is in no dataset.
EntryPool ==
    {ListEntry("completeness", <<"a", "r">>),
     ListEntry("completeness", <<"a", "z">>),
     ListEntry("uniq_sing", <<"a", "z">>),
     ListsEntry("uniq_mult", << <<"a", "b">>, <<"a", "z">> >>),
     ListEntry("vali_val_pos", <<"a", "z">>),
     MapEntry("vali_val_rang",
              <<Item(<<"a">>, <<KV("min", PInt(1)), KV("max", PInt(1))>>)>>),
     MapEntry("vali_high_col", <<Item(<<"a">>, <<KV("compare_to", PStr("b"))>>)>>),
     MapEntry("vali_low_col", <<Item(<<"b">>, <<KV("compare_to", PStr("z"))>>)>>),
     MapEntry("vali_list_str", <<Item(<<"r">>, <<KV("values", PList(<<"PM">>))>>)>>),
     MapEntry("vali_custom", <<Item(<<"a">>, NoParams)>>),
     ListEntry("vali_other", <<>>),
     MapEntry("cons_list_str",
              <<Item(<<"r">>, <<KV("values", PList(<<"PM", "SK", "SB">>))>>)>>),
     MapEntry("cons_uplo_csv", <<Item(<<"r">>, CsvParams), Item(<<"a">>, CsvParams)>>),
     MapEntry("cons_conn_sql",
              <<Item(<<"r">>, SqlParams), Item(<<"a">>, SqlParams), Item(<<"z">>, SqlParams)>>),
     MapEntry("cons_custom", <<Item(<<"r">>, NoParams)>>),
     ListEntry("timeliness", <<"a">>)}

\* A dict has one entry per key.
Configs ==
    {c \in UpTo(EntryPool, MaxEntries) :
        \A i, j \in 1..Len(c) : i # j => c[i].tag # c[j].tag}

\* One engine, one call of run().
Init ==
    /\ required_cols = NoCalls
    /\ callerDf \in Datasets
    /\ dim_map \in Configs
    /\ db_config \in BOOLEAN
    /\ eng = [e \in Engines |-> EngineInit(callerDf, e)]
    /\ run = [r \in Runs |-> NewRun(1, IF r = 1 THEN "phase" ELSE "off")]

Spec == Init /\ [][Next]_vars

\* Several calls of run(), each on an engine of its own or on an engine an
\* earlier call uses, in any interleaving. The calls are numbered so that
\* the calls on one engine follow each other and the engines are numbered in
\* the order of their first call: every way of sharing engines among the
\* calls is one of these up to the numbering.
MultiConfigs ==
    {c \in Configs : Len(c) <= 1 /\
        \A i \in 1..Len(c) : c[i].tag \in {"completeness", "cons_uplo_csv", "cons_conn_sql"}}

MultiInit ==
    /\ required_cols = NoCalls
    /\ callerDf \in {MkDf(rows) : rows \in UpTo(RowPool, 1)}
    /\ dim_map \in MultiConfigs
    /\ db_config \in BOOLEAN
    /\ eng = [e \in Engines |-> EngineInit(callerDf, e)]
    /\ \E engineOf \in [Runs -> Engines] :
          /\ engineOf[1] = 1
          /\ \A r \in Runs \ {1} : engineOf[r] \in {engineOf[r - 1], engineOf[r - 1] + 1}
          /\ run = [r \in Runs |-> NewRun(engineOf[r], "phase")]

SpecMulti == MultiInit /\ [][Next]_vars

\* One call of get_req_col on the configuration: the set it returns is
\* recorded with the configuration as it is after the call.
GetReqCol ==
    /\ Len(required_cols) < PipelineCalls
    /\ required_cols' = Append(required_cols,
                               [value |-> get_req_col(dim_map), config |-> dim_map])
    /\ UNCHANGED <<callerDf, dim_map, db_config, eng, run>>

NextReq == GetReqCol

\* The calls of get_req_col on any configuration, no engine running.
ReqInit ==
    /\ required_cols = NoCalls
    /\ callerDf = MkDf(<<>>)
    /\ dim_map \in Configs
    /\ db_config = FALSE
    /\ eng = [e \in Engines |-> EngineInit(callerDf, e)]
    /\ run = [r \in Runs |-> NewRun(1, "off")]

SpecReq == ReqInit /\ [][NextReq]_vars

\* One run of one engine under a single rule entry, on longer datasets.
WideRows == 4

WideRowPool ==
    {Row(Num(1), Num(0), Str("PM")),
     Row(Num(1), Num(500), Str("XX")),
     Row(Num(2), Num(1001), Null),
     Row(Num(3), Null, Str("PM")),
     Row(Null, Num(1), Str("SK"))}

WideEntryPool ==
    {ListEntry("completeness", <<"a", "b">>),
     ListEntry("uniq_sing", <<"a", "r">>),
     ListsEntry("uniq_mult", << <<"a", "r">> >>),
     ListEntry("vali_val_pos", <<"b">>),
     MapEntry("vali_val_rang",
              <<Item(<<"b">>, <<KV("min", PInt(1)), KV("max", PInt(1000))>>)>>),
     MapEntry("vali_high_col", <<Item(<<"a">>, <<KV("compare_to", PStr("b"))>>)>>),
     MapEntry("vali_list_str", <<Item(<<"r">>, <<KV("values", PList(<<"PM">>))>>)>>),
     MapEntry("cons_list_str",
              <<Item(<<"r">>, <<KV("values", PList(<<"PM", "SK", "SB">>))>>)>>),
     MapEntry("cons_uplo_csv", <<Item(<<"r">>, CsvParams)>>),
     MapEntry("cons_conn_sql", <<Item(<<"r">>, SqlParams)>>)}

WideInit ==
    /\ required_cols = NoCalls
    /\ callerDf \in {MkDf(rows) : rows \in UpTo(WideRowPool, WideRows)}
    /\ dim_map \in {<<e>> : e \in WideEntryPool}
    /\ db_config \in BOOLEAN
    /\ eng = [e \in Engines |-> EngineInit(callerDf, e)]
    /\ run = [r \in Runs |-> NewRun(1, IF r = 1 THEN "phase" ELSE "off")]

SpecWide == WideInit /\ [][Next]_vars

\* One run of one engine under a single entry of a numeric validity kind or
\* of a reference kind, on values at, below and above the limits of the
\* rules.
RuleRowPool ==
    {Row(Num(0 - 1), Num(0), Str("PM")),
     Row(Num(0), Num(1), Str("PM")),
     Row(Num(1), Num(1), Str("XX")),
     Row(Num(1), Num(2), Str("PM")),
     Row(Num(2), Num(1), Str("PM")),
     Row(Num(1), Null, Str("PM")),
     Row(Null, Num(1), Str("PM"))}

\* The parameters of CsvParams, written in the other key order
CsvParamsSwapped == <<KV("ref_col", PStr("Name")), KV("csv_path", PStr("geo.csv"))>>

RuleEntryPool ==
    {ListEntry("vali_val_pos", <<"a">>),
     ListEntry("vali_val_neg", <<"a">>),
     MapEntry("vali_val_rang",
              <<Item(<<"a">>, <<KV("min", PInt(0)), KV("max", PInt(1))>>)>>),
     MapEntry("vali_high_val", <<Item(<<"a">>, <<KV("threshold", PInt(1))>>)>>),
     MapEntry("vali_low_val", <<Item(<<"a">>, <<KV("threshold", PInt(1))>>)>>),
     MapEntry("vali_high_col", <<Item(<<"a">>, <<KV("compare_to", PStr("b"))>>)>>),
     MapEntry("vali_low_col", <<Item(<<"a">>, <<KV("compare_to", PStr("b"))>>)>>),
     MapEntry("cons_uplo_csv",
              <<Item(<<"r">>, CsvParams), Item(<<"a">>, CsvParamsSwapped)>>),
     MapEntry("cons_uplo_csv",
              <<Item(<<"r">>, CsvParams), Item(<<"a">>, CsvParams)>>),
     MapEntry("cons_conn_sql", <<Item(<<"r">>, SqlParams)>>)}

RuleInit ==
    /\ required_cols = NoCalls
    /\ callerDf \in {MkDf(rows) : rows \in UpTo(RuleRowPool, MaxRows)}
    /\ dim_map \in {<<e>> : e \in RuleEntryPool}
    /\ db_config \in BOOLEAN
    /\ eng = [e \in Engines |-> EngineInit(callerDf, e)]
    /\ run = [r \in Runs |-> NewRun(1, IF r = 1 THEN "phase" ELSE "off")]

SpecRules == RuleInit /\ [][Next]_vars

\* ------------------------------------------------------------------------
\* Properties
\* ------------------------------------------------------------------------
RecognizedKinds ==
    {"completeness", "uniq_sing", "uniq_mult"} \cup ValidityKinds \cup ConsistencyKinds

HasUnknownKind(dm) == \E i \in 1..Len(dm) : dm[i].tag \notin RecognizedKinds

Dims(e) == eng[e].report.dimensions

\* C1: a configuration with a rule-kind tag that is not a recognized kind
\* makes run() abort: such a run never returns a report and an enriched
\* dataset.
C1_UnknownKindAborts ==
    \A r \in Runs : HasUnknownKind(dim_map) => ~run[r].ret.returned

\* C2: with a configuration of recognized rule kinds only, run() never
\* aborts, whatever the dataset and whatever fails inside one rule or column.
C2_RecognizedNeverAborts ==
    \A r \in Runs : ~HasUnknownKind(dim_map) => run[r].pc # "aborted"

\* C3: a run never aborts because the reference file of a cons_uplo_csv rule
\* cannot be read or because the query of a cons_conn_sql rule fails.
C3_ResolverIoNeverAborts ==
    \A r \in Runs : run[r].err \notin {"FileNotFoundError", "DatabaseError"}

IsAttempt(ev) == ev \in {"connected", "failed"}

Count(t, S) == Cardinality({i \in 1..Len(t) : t[i] \in S})

\* The shape of the connection loop of one resolution: at most 3 attempts,
\* nothing after a success, a 2-second sleep after a failure that is not the
\* last event and an attempt after every sleep, and an empty set cached once
\* 3 attempts have failed.
RetryShape(rn) ==
    LET t == rn.trace IN
    /\ Count(t, {"connected", "failed"}) <= 3
    /\ \A i \in 1..(Len(t) - 1) :
          /\ t[i] # "connected"
          /\ t[i] = "failed" => t[i + 1] = "sleep"
          /\ t[i] = "sleep" => IsAttempt(t[i + 1])
    /\ t # <<>> => IsAttempt(t[1])
    /\ (rn.pc \notin {"connect", "sleep"} /\ t # <<>>) => IsAttempt(t[Len(t)])
    /\ rn.pc = "sleep" => Count(t, {"failed"}) < 3
    /\ rn.slept = 2 * Count(t, {"sleep"})
    /\ Count(t, {"failed"}) = 3 =>
          /\ rn.sqlkey \in DOMAIN rn.cache
          /\ rn.cache[rn.sqlkey] = {}

\* A step out of the connection loop goes on to the query or, with an empty
\* set, to the next item of the phase: it never aborts the run.
ConnectContinues ==
    \A r \in Runs :
        run[r].pc = "connect" => run'[r].pc \in {"query", "sleep", "cons_loop"}

\* C4: with a database configuration, one resolution makes at most 3
\* connection attempts, stops at the first success, sleeps 2 seconds between
\* two consecutive attempts and never after the last, and after 3 failures
\* yields an empty set while the run continues.
C4_RetryPolicy ==
    /\ [](\A r \in Runs : RetryShape(run[r]))
    /\ [][ConnectContinues]_vars

C4_Witness ==
    \E r \in Runs :
        /\ run[r].trace = <<"failed", "sleep", "failed", "sleep", "failed">>
        /\ run[r].slept = 4
        /\ run[r].pc = "done"

IsSqlKey(key) == StartsWith(key, "cons_conn_sql_")

\* C5: without a database configuration a cons_conn_sql rule resolves to an
\* empty set at once: no connection attempt, no sleep, no connection, and the
\* run is not aborted by the resolution.
C5_NoProviderNoRetry ==
    ~db_config =>
        \A r \in Runs :
            /\ run[r].trace = <<>>
            /\ run[r].slept = 0
            /\ run[r].conn = "none"
            /\ run[r].pc \notin {"connect", "sleep", "query"}
            /\ run[r].err # "DatabaseError"
            /\ \A key \in DOMAIN run[r].cache : IsSqlKey(key) => run[r].cache[key] = {}

C5_Witness ==
    /\ ~db_config
    /\ \E r \in Runs :
          /\ run[r].pc = "done"
          /\ \E key \in DOMAIN run[r].cache : IsSqlKey(key) /\ run[r].loads[key] = 1

\* C6: within one run each cache key is loaded from its file or its database
\* at most once, and every later resolve() of the key is served from the
\* cache, also when the set resolved first is empty.
C6_ResolveOncePerKey ==
    \A r \in Runs :
        /\ \A key \in DOMAIN run[r].loads : run[r].loads[key] <= 1
        /\ \A key \in DOMAIN run[r].hits : key \in DOMAIN run[r].cache

C6_Witness ==
    \E r \in Runs : \E key \in DOMAIN run[r].hits :
        /\ run[r].hits[key] = 1
        /\ run[r].loads[key] = 1
        /\ run[r].cache[key] = {}

\* The consistency entry a run computed from the sets its own resolver gave it.
OwnConsistency(rn) == [columns |-> rn.results, dim_perc |-> DimPerc(rn.scores)]

\* C7: runs share no mutable state: the report a run returned holds, under
\* every interleaving, the consistency entry that run computed itself.
C7_RunsIsolated ==
    \A r \in Runs :
        run[r].ret.returned =>
            Dims(run[r].ret.report)["consistency"] = OwnConsistency(run[r])

\* The columns cols of a dataset, in the order of the dataset
Project(d, cols) ==
    [columns |-> SelectSeq(d.columns, LAMBDA c : c \in Range(cols)),
     n |-> d.n,
     data |-> [c \in Range(cols) |-> d.data[c]]]

\* C8: the working copy of every engine equals the caller's dataset in every
\* state, and the enriched output restricted to the original columns is the
\* caller's dataset, row for row and in the original column order.
C8_DatasetUntouched ==
    /\ \A e \in Engines : eng[e].df = callerDf
    /\ \A r \in Runs :
          run[r].ret.returned =>
              /\ SubSeq(run[r].ret.enriched.columns, 1, Len(callerDf.columns))
                     = callerDf.columns
              /\ Project(run[r].ret.enriched, callerDf.columns) = callerDf

C8_Witness ==
    \E r \in Runs :
        /\ run[r].ret.returned
        /\ callerDf.n = MaxRows
        /\ \E i \in Idx(callerDf) : IsNa(callerDf.data["a"][i])
        /\ "uniq_sing.a" \in Range(run[r].ret.enriched.columns)

IsPrefix(s, t) == Len(s) <= Len(t) /\ SubSeq(t, 1, Len(s)) = s

DimNames == {"completeness", "uniqueness", "validity", "consistency"}

\* C9: the phases start once each in the order completeness, uniqueness,
\* validity, consistency, and when run() has returned all four have run and
\* the report holds a dim_perc for each dimension.
C9_PhaseOrder ==
    \A r \in Runs :
        /\ IsPrefix(run[r].phases, <<"completeness", "uniqueness", "validity", "consistency">>)
        /\ run[r].ret.returned =>
              /\ Len(run[r].phases) = 4
              /\ \A d \in DimNames :
                    /\ d \in DOMAIN Dims(run[r].ret.report)
                    /\ "dim_perc" \in DOMAIN Dims(run[r].ret.report)[d]

C9_Witness ==
    \E r \in Runs :
        /\ run[r].ret.returned
        /\ dim_map = <<>>
        /\ \A d \in DimNames : Dims(run[r].ret.report)[d].dim_perc = 10000

\* The column maps of one dimension entry
ColMaps(d, entry) ==
    IF d = "uniqueness" THEN {entry.uniq_sing, entry.uniq_mult} ELSE {entry.columns}

InPercent(x) == 0 <= x /\ x <= 10000

\* C10: every col_perc and every dim_perc of every report lies in [0, 100].
C10_PercentRange ==
    \A e \in Engines : \A d \in DOMAIN Dims(e) :
        /\ InPercent(Dims(e)[d].dim_perc)
        /\ \A m \in ColMaps(d, Dims(e)[d]) : \A c \in DOMAIN m : InPercent(m[c].col_perc)

C10_Witness ==
    \E r \in Runs :
        /\ run[r].ret.returned
        /\ \E c \in DOMAIN Dims(run[r].ret.report)["validity"].columns :
              Dims(run[r].ret.report)["validity"].columns[c].col_perc = 5000
        /\ \E c \in DOMAIN Dims(run[r].ret.report)["completeness"].columns :
              Dims(run[r].ret.report)["completeness"].columns[c].col_perc = 5000

Abs(x) == IF x < 0 THEN 0 - x ELSE x

\* m hundredths is num/den rounded to 2 decimals: no hundredth is nearer
Rounded(m, num, den) == 2 * Abs(m * den - num) <= den

\* m hundredths of a percent is part/whole x 100 rounded to 2 decimals
RoundedPerc(m, part, whole) == Rounded(m, part * 10000, whole)

Flag(e, name) == eng[e].row_flags.data[name]

Zeros(e, name) == {i \in Idx(eng[e].df) : Flag(e, name)[i] = 0}

Listed(tag) == {GetItems(dim_map, tag)[i].cols : i \in 1..Len(GetItems(dim_map, tag))}

\* C11: once the completeness phase has written its entry, every listed
\* column has a result and a flag column; the flag of a row is 1 exactly when
\* the value is present and 0 when it is absent; rows_evaluated is
\* total_rows; null_count is the number of rows flagged 0; col_perc is
\* (total_rows - null_count) / total_rows x 100 rounded to 2 decimals, 100.0
\* without nulls and 0.0 with nulls only.
C11_Completeness ==
    \A e \in Engines :
        "completeness" \in DOMAIN Dims(e) =>
            LET res == Dims(e)["completeness"].columns
                df == eng[e].df
            IN  /\ \A cols \in Listed("completeness") : cols[1] \in DOMAIN res
                /\ \A col \in DOMAIN res :
                      LET name == "completeness." \o col IN
                      /\ \A i \in Idx(df) :
                            /\ ~IsNa(df.data[col][i]) => Flag(e, name)[i] = 1
                            /\ IsNa(df.data[col][i]) => Flag(e, name)[i] = 0
                      /\ res[col].rows_evaluated = eng[e].total_rows
                      /\ res[col].null_count = Cardinality(Zeros(e, name))
                      /\ RoundedPerc(res[col].col_perc,
                                     eng[e].total_rows - res[col].null_count,
                                     eng[e].total_rows)
                      /\ res[col].null_count = 0 => res[col].col_perc = 10000
                      /\ res[col].null_count = eng[e].total_rows => res[col].col_perc = 0

C11_Witness ==
    \E r \in Runs :
        /\ run[r].ret.returned
        /\ callerDf.n = 3
        /\ LET res == Dims(run[r].ret.report)["completeness"].columns IN
           /\ {"a", "b"} \subseteq DOMAIN res
           /\ res["a"].null_count = 3
           /\ res["a"].col_perc = 0
           /\ res["b"].null_count = 0
           /\ res["b"].col_perc = 10000

\* The key of row i of a dataset under the key columns cols
RowKey(df, cols, i) == [j \in 1..Len(cols) |-> df.data[cols[j]][i]]

\* The rows whose key has no null
Evaluated(df, cols) == {i \in Idx(df) : \A j \in 1..Len(cols) : ~IsNa(RowKey(df, cols, i)[j])}

\* The statistics st are the uniqueness scoring of the key cols on df.
UniqScored(df, cols, st) ==
    LET ev == Evaluated(df, cols)
        later == {i \in ev : \E j \in ev : j < i /\ RowKey(df, cols, j) = RowKey(df, cols, i)}
        distinct == {RowKey(df, cols, i) : i \in ev}
    IN  /\ st.rows_evaluated = Cardinality(ev)
        /\ st.duplicate_count = Cardinality(later)
        /\ st.duplicate_count = st.rows_evaluated - Cardinality(distinct)
        /\ st.rows_evaluated > 0 =>
              RoundedPerc(st.col_perc, st.rows_evaluated - st.duplicate_count,
                          st.rows_evaluated)
        /\ st.rows_evaluated = 0 => st.col_perc = 10000 /\ st.duplicate_count = 0

ColumnIs(df, col, cells) == df.n = Len(cells) /\ df.data[col] = cells

\* C12: once the uniqueness phase has written its entry, every single-key
\* column and every composite key whose columns are in the dataset has
\* statistics: rows_evaluated is the number of rows with a non-null key,
\* duplicate_count the number of evaluated rows whose key equals the key of an
\* earlier evaluated row (rows_evaluated minus the distinct keys), col_perc is
\* (rows_evaluated - duplicate_count) / rows_evaluated x 100 rounded to 2
\* decimals, and 100.0 with duplicate_count 0 when no row is evaluated. The
\* values 1, 1, 2, 3 give 4, 1 and 75.0.
C12_UniquenessScoring ==
    \A e \in Engines :
        "uniqueness" \in DOMAIN Dims(e) =>
            LET sing == Dims(e)["uniqueness"].uniq_sing
                mult == Dims(e)["uniqueness"].uniq_mult
                df == eng[e].df
            IN  /\ \A cols \in Listed("uniq_sing") :
                      cols[1] \in Cols(df) => cols[1] \in DOMAIN sing
                /\ \A cols \in Listed("uniq_mult") :
                      Range(cols) \subseteq Cols(df) => JoinDot(cols) \in DOMAIN mult
                /\ \A col \in DOMAIN sing : UniqScored(df, <<col>>, sing[col])
                /\ \A key \in DOMAIN mult : UniqScored(df, mult[key].columns_used, mult[key])
                /\ \A col \in DOMAIN sing :
                      ColumnIs(df, col, <<Num(1), Num(1), Num(2), Num(3)>>) =>
                          /\ sing[col].rows_evaluated = 4
                          /\ sing[col].duplicate_count = 1
                          /\ sing[col].col_perc = 7500

C12_Witness ==
    \E r \in Runs :
        /\ run[r].ret.returned
        /\ ColumnIs(callerDf, "a", <<Num(1), Num(1), Num(2), Num(3)>>)
        /\ LET sing == Dims(run[r].ret.report)["uniqueness"].uniq_sing IN
           /\ "a" \in DOMAIN sing
           /\ sing["a"] = [duplicate_count |-> 1, rows_evaluated |-> 4, col_perc |-> 7500]

\* The rows whose key is the key of another row of the full dataset; the key
\* of a row is its cells, an absent cell included (two absent cells are the
\* same key value).
Shared(df, cols) ==
    {i \in Idx(df) : \E j \in Idx(df) : j # i /\ RowKey(df, cols, j) = RowKey(df, cols, i)}

\* The evaluated rows the scoring counts as duplicates
ScoredDuplicates(df, cols) ==
    {i \in Evaluated(df, cols) :
        \E j \in Evaluated(df, cols) : j < i /\ RowKey(df, cols, j) = RowKey(df, cols, i)}

\* The flag column name is the uniqueness flag of the key cols with the
\* statistics st.
UniqFlagged(e, name, cols, st) ==
    LET df == eng[e].df IN
    /\ \A i \in Idx(df) :
          /\ i \in Shared(df, cols) => Flag(e, name)[i] = 0
          /\ i \notin Shared(df, cols) => Flag(e, name)[i] = 1
    /\ ScoredDuplicates(df, cols) \subseteq Zeros(e, name)
    /\ Cardinality(Zeros(e, name)) >= st.duplicate_count

\* C13: once the uniqueness phase has written its entry, for each single-key
\* column and each composite key with statistics, a row is flagged 0 exactly
\* when its key occurs in more than one row of the full dataset (the first
\* occurrence too) and 1 otherwise; every row the scoring counts as a
\* duplicate is flagged 0, and at least duplicate_count rows are flagged 0.
C13_UniquenessFlags ==
    \A e \in Engines :
        "uniqueness" \in DOMAIN Dims(e) =>
            LET sing == Dims(e)["uniqueness"].uniq_sing
                mult == Dims(e)["uniqueness"].uniq_mult
            IN  /\ \A col \in DOMAIN sing :
                      UniqFlagged(e, "uniq_sing." \o col, <<col>>, sing[col])
                /\ \A key \in DOMAIN mult :
                      UniqFlagged(e, "uniq_mult." \o key, mult[key].columns_used, mult[key])

C13_Witness ==
    \E r \in Runs :
        /\ run[r].ret.returned
        /\ ColumnIs(callerDf, "a", <<Num(1), Num(1), Num(2), Num(3)>>)
        /\ "uniq_sing.a" \in Range(run[r].ret.enriched.columns)
        /\ run[r].ret.enriched.data["uniq_sing.a"] = <<0, 0, 1, 1>>
        /\ Dims(run[r].ret.report)["uniqueness"].uniq_sing["a"].duplicate_count = 1

Present(df, col) == {i \in Idx(df) : ~IsNa(df.data[col][i])}

\* The flag column name and the statistics st of column col follow from the
\* set pass of evaluated rows that satisfy the rule: null rows are flagged 1
\* and are not counted, the rows flagged 0 are the invalid ones.
Evaluation(e, name, col, st, pass) ==
    LET df == eng[e].df
        ev == Present(df, col)
    IN  /\ st.rows_evaluated = Cardinality(ev)
        /\ st.invalid_count = st.rows_evaluated - Cardinality(pass)
        /\ st.rows_evaluated > 0 =>
              RoundedPerc(st.col_perc, Cardinality(pass), st.rows_evaluated)
        /\ st.rows_evaluated = 0 => st.col_perc = 10000
        /\ \A i \in Idx(df) \ ev : Flag(e, name)[i] = 1
        /\ \A i \in ev : Flag(e, name)[i] = (IF i \in pass THEN 1 ELSE 0)
        /\ Cardinality(Zeros(e, name)) = st.invalid_count

\* The evaluated rows of col that satisfy the predicate of the rule
Satisfying(df, col, rule, params) ==
    {i \in Present(df, col) :
        VALIDITY_RULES(rule, df.data[col][i], params,
                       IF rule \in ColumnKinds
                       THEN df.data[Param(params, "compare_to").s][i] ELSE Null)}

Range1To1000 == <<KV("min", PInt(1)), KV("max", PInt(1000))>>

Cells0To1001 == <<Num(0), Num(500), Num(1001), Null>>

\* C14: once the validity phase has written its entry, for every entry of
\* its column map: rows_evaluated is the number of non-null values of the
\* column, invalid_count is rows_evaluated minus the evaluated rows that
\* satisfy the predicate, col_perc is valid / rows_evaluated x 100 rounded to
\* 2 decimals (100.0 when nothing is evaluated), a null row is flagged 1, and
\* the rows flagged 0 are invalid_count many. The range 1..1000 on
\* 0, 500, 1001, null gives 3 evaluated, 2 invalid and 33.33.
C14_ValidityStats ==
    \A e \in Engines :
        "validity" \in DOMAIN Dims(e) =>
            LET res == Dims(e)["validity"].columns
                df == eng[e].df
            IN  \A col \in DOMAIN res :
                  /\ col \in Cols(df)
                  /\ Evaluation(e, res[col].rule \o "." \o col, col, res[col],
                                Satisfying(df, col, res[col].rule, res[col].rule_params))
                  /\ (/\ res[col].rule = "vali_val_rang"
                      /\ res[col].rule_params = Range1To1000
                      /\ ColumnIs(df, col, Cells0To1001)) =>
                          /\ res[col].rows_evaluated = 3
                          /\ res[col].invalid_count = 2
                          /\ res[col].col_perc = 3333

C14_Witness ==
    \E r \in Runs :
        /\ run[r].ret.returned
        /\ ColumnIs(callerDf, "b", Cells0To1001)
        /\ LET res == Dims(run[r].ret.report)["validity"].columns IN
           /\ "b" \in DOMAIN res
           /\ res["b"] = [rule |-> "vali_val_rang", invalid_count |-> 2,
                          rows_evaluated |-> 3, col_perc |-> 3333,
                          rule_params |-> Range1To1000]
        /\ run[r].ret.enriched.data["vali_val_rang.b"] = <<0, 1, 0, 1>>

\* The rule items of the validity and of the consistency entries
RuleItems == Range(Worklist(dim_map, "vali_")) \cup Range(Worklist(dim_map, "cons_"))

DimOf(rule) == IF StartsWith(rule, "vali_") THEN "validity" ELSE "consistency"

\* The columns a rule item references: its own column and the column named
\* under compare_to
Referenced(w) ==
    {w.col} \cup (IF HasKey(w.params, "compare_to")
                  THEN {Param(w.params, "compare_to").s} ELSE {})

\* Engine e has a report entry of item w.
HasEntry(e, w) ==
    /\ DimOf(w.rule) \in DOMAIN Dims(e)
    /\ w.col \in DOMAIN Dims(e)[DimOf(w.rule)].columns
    /\ Dims(e)[DimOf(w.rule)].columns[w.col].rule = w.rule

HasFlag(e, w) == (w.rule \o "." \o w.col) \in Range(eng[e].row_flags.columns)

\* C15: a validity or consistency rule item that references a column the
\* dataset lacks is skipped: it gets no flag column and no report entry, and
\* it raises nothing, so under a configuration of recognized kinds the
\* validity and the consistency phase never end in a KeyError.
C15_AbsentColumnSkipped ==
    \A r \in Runs : \A w \in RuleItems :
        ~(Referenced(w) \subseteq Cols(callerDf)) =>
            /\ ~HasFlag(run[r].engine, w)
            /\ ~HasEntry(run[r].engine, w)
            /\ ~HasUnknownKind(dim_map) =>
                  ~(/\ run[r].pc = "aborted"
                    /\ run[r].err = "KeyError"
                    /\ run[r].phases # <<>>
                    /\ run[r].phases[Len(run[r].phases)] = DimOf(w.rule))

\* The reference set the resolver of the run holds for a rule and its params
ResolvedSet(rn, rule, params) == rn.cache[CacheKey(rule, params)]

\* The evaluated rows of col whose string form is a member of ref
Members(df, col, ref) == {i \in Present(df, col) : AsStr(df, col, df.data[col][i]) \in ref}

AllowedPmSkSb == <<KV("values", PList(<<"PM", "SK", "SB">>))>>

CellsPmXxNull == <<Str("PM"), Str("XX"), Null>>

\* The entry st of column col in the results of the consistency phase of a run
ConsistencyEntry(rn, col, st) ==
    LET e == rn.engine
        df == eng[e].df
        name == st.rule \o "." \o col
    IN  /\ col \in Cols(df)
        /\ st.rows_evaluated = Cardinality(Present(df, col))
        /\ st.rows_evaluated = 0 => Evaluation(e, name, col, st, {})
        /\ st.rows_evaluated > 0 =>
              /\ CacheKey(st.rule, st.rule_params) \in DOMAIN rn.cache
              /\ Evaluation(e, name, col, st,
                            Members(df, col, ResolvedSet(rn, st.rule, st.rule_params)))
              /\ ResolvedSet(rn, st.rule, st.rule_params) = {} =>
                    /\ Present(df, col) = Zeros(e, name)
                    /\ st.col_perc = 0
        /\ (/\ st.rule = "cons_list_str"
            /\ st.rule_params = AllowedPmSkSb
            /\ ColumnIs(df, col, CellsPmXxNull)) =>
                /\ st.rows_evaluated = 2
                /\ st.invalid_count = 1
                /\ st.col_perc = 5000

\* C16: in the consistency phase, for every evaluated rule and column, a
\* non-null value passes exactly when its string form is a member of the
\* reference set resolved for the rule and its params; null rows are flagged
\* 1 and are not in the denominator; with an empty resolved set every
\* evaluated row is flagged 0 and col_perc is 0.0. The allowed values PM, SK,
\* SB on PM, XX, null give 2 evaluated, 1 valid and 50.0.
C16_ConsistencyMembership ==
    \A r \in Runs :
        /\ \A col \in DOMAIN run[r].results :
              ConsistencyEntry(run[r], col, run[r].results[col])
        /\ run[r].ret.returned =>
              Dims(run[r].ret.report)["consistency"].columns = run[r].results

C16_Witness ==
    \E r \in Runs :
        /\ run[r].ret.returned
        /\ ColumnIs(callerDf, "r", CellsPmXxNull)
        /\ LET res == Dims(run[r].ret.report)["consistency"].columns IN
           /\ "r" \in DOMAIN res
           /\ res["r"] = [rule |-> "cons_list_str", invalid_count |-> 1,
                          rows_evaluated |-> 2, col_perc |-> 5000,
                          rule_params |-> AllowedPmSkSb]
        /\ run[r].ret.enriched.data["cons_list_str.r"] = <<1, 0, 1>>

\* The flag columns of one dimension: one per percentage produced
FlagPrefixes(d) ==
    CASE d = "completeness" -> {"completeness."}
      [] d = "uniqueness"   -> {"uniq_sing.", "uniq_mult."}
      [] d = "validity"     -> {"vali_"}
      [] d = "consistency"  -> {"cons_"}

FlagColumns(e, d) ==
    {name \in Range(eng[e].row_flags.columns) : \E p \in FlagPrefixes(d) : StartsWith(name, p)}

\* The col_perc values of the entries of one dimension entry
EntryPercs(d, entry) ==
    UNION {{m[c].col_perc : c \in DOMAIN m} : m \in ColMaps(d, entry)}

\* C17: for each dimension a run has finished, dim_perc is the mean of the
\* percentages the phase produced, one per flag column of the dimension,
\* rounded to 2 decimals, and 100.0 when it produced none; every col_perc of
\* the dimension entry is one of them.
C17_DimPercMean ==
    \A r \in Runs : \A d \in DOMAIN run[r].col_scores :
        LET scores == run[r].col_scores[d]
            entry == Dims(run[r].engine)[d]
        IN  /\ Len(scores) = Cardinality(FlagColumns(run[r].engine, d))
            /\ EntryPercs(d, entry) \subseteq Range(scores)
            /\ scores = <<>> => entry.dim_perc = 10000
            /\ scores # <<>> => Rounded(entry.dim_perc, SumSeq(scores), Len(scores))

C17_Witness ==
    \E r \in Runs :
        /\ run[r].ret.returned
        /\ run[r].col_scores["completeness"] = <<5000, 10000>>
        /\ Dims(run[r].ret.report)["completeness"].dim_perc = 7500
        /\ run[r].col_scores["consistency"] = <<5000, 0>>
        /\ Dims(run[r].ret.report)["consistency"].dim_perc = 2500
        /\ run[r].col_scores["uniqueness"] = <<>>
        /\ Dims(run[r].ret.report)["uniqueness"].dim_perc = 10000

\* The report a run returned, without the generation timestamp
ReportBody(r) ==
    [total_rows |-> eng[run[r].ret.report].report.total_rows,
     dimensions |-> eng[run[r].ret.report].report.dimensions]

\* Two runs returned the same report, the timestamp apart, and the same
\* enriched dataset, so the same flag matrix.
SameOutcome(r1, r2) ==
    /\ ReportBody(r1) = ReportBody(r2)
    /\ run[r1].ret.enriched = run[r2].ret.enriched

\* C18 as stated: any two runs that returned, on two engine instances or on
\* one, on the same dataset and configuration, returned identical reports
\* (the generation timestamp apart) and identical flag matrices.
C18_Idempotent ==
    \A r1, r2 \in Runs :
        (run[r1].ret.returned /\ run[r2].ret.returned) => SameOutcome(r1, r2)

\* Every run made on the engine instance of run r resolved its reference
\* sets as r did.
SameReferencesOnInstance(r) ==
    \A o \in Runs :
        run[o].engine = run[r].engine =>
            \A key \in DOMAIN run[o].cache :
                key \in DOMAIN run[r].cache /\ run[o].cache[key] = run[r].cache[key]

\* C18, amended: two runs that returned and whose resolvers resolved the same
\* reference sets, as did every other run on their engine instances,
\* returned identical reports (the generation timestamp apart) and identical
\* flag matrices.
C18_IdempotentSameReferences ==
    \A r1, r2 \in Runs :
        (/\ run[r1].ret.returned
         /\ run[r2].ret.returned
         /\ run[r1].cache = run[r2].cache
         /\ SameReferencesOnInstance(r1)
         /\ SameReferencesOnInstance(r2)) => SameOutcome(r1, r2)

C18_Witness ==
    \E r1, r2 \in Runs :
        /\ run[r1].engine # run[r2].engine
        /\ run[r1].ret.returned
        /\ run[r2].ret.returned
        /\ run[r1].cache = run[r2].cache
        /\ \E key \in DOMAIN run[r1].cache : run[r1].cache[key] # {}
        /\ eng[run[r1].engine].report.generated_at # eng[run[r2].engine].report.generated_at

\* The column names a configuration lists: the names of a list-valued entry
\* (of each of its lists, for a list of lists), the keys of a mapping-valued
\* entry, and the values under compare_to
NamedColumns(dm) ==
    {c \in {"a", "b", "r", "z"} :
        \E i \in 1..Len(dm) : \E j \in 1..Len(dm[i].items) :
            \/ c \in Range(dm[i].items[j].cols)
            \/ /\ dm[i].shape = "map"
               /\ HasKey(dm[i].items[j].params, "compare_to")
               /\ c = Param(dm[i].items[j].params, "compare_to").s}

Perms(n) == {p \in [1..n -> 1..n] : \A i, j \in 1..n : p[i] = p[j] => i = j}

Permute(s, p) == [i \in 1..Len(s) |-> s[p[i]]]

\* The configurations that differ from dm in the order of the entries, of the
\* items of one entry or of the names of one composite key
Reordered(dm) ==
    {Permute(dm, p) : p \in Perms(Len(dm))}
    \cup UNION {{[dm EXCEPT ![i].items = Permute(@, p)] : p \in Perms(Len(dm[i].items))} :
                   i \in 1..Len(dm)}
    \cup UNION {UNION {{[dm EXCEPT ![i].items[j].cols = Permute(@, p)] :
                           p \in Perms(Len(dm[i].items[j].cols))} :
                          j \in 1..Len(dm[i].items)} :
                   i \in 1..Len(dm)}

\* C19: every call of get_req_col returns exactly the set of the listed
\* names, the mapping keys and the compare_to values of the configuration;
\* the configuration reordered gives the same set; a second call returns the
\* same set, and the configuration is what it was at every call.
C19_RequiredColumns ==
    \A k \in 1..Len(required_cols) :
        /\ required_cols[k].value = NamedColumns(dim_map)
        /\ \A dm \in Reordered(dim_map) : get_req_col(dm) = required_cols[k].value
        /\ required_cols[k].value = required_cols[1].value
        /\ required_cols[k].config = dim_map

C19_Witness ==
    /\ Len(required_cols) = 2
    /\ required_cols[2].value = {"a", "b", "z"}
    /\ \E i, j \in 1..Len(dim_map) :
          /\ dim_map[i].tag = "vali_low_col"
          /\ dim_map[j].tag = "uniq_mult"

\* The names rule-kind, dot, column (the dot-joined columns of a composite
\* key) of the items of the configuration
ItemFlagNames ==
    UNION {{dim_map[i].tag \o "." \o JoinDot(dim_map[i].items[j].cols) :
               j \in 1..Len(dim_map[i].items)} : i \in 1..Len(dim_map)}

\* One value per row of the dataset, each 0 or 1
AlignedColumn(df, vals) ==
    /\ DOMAIN vals = Idx(df)
    /\ \A i \in Idx(df) : vals[i] \in {0, 1}

\* C20: in every state (so after every phase) the flag matrix of an engine
\* has the rows of the dataset, every flag column has one value per dataset
\* row, each 0 or 1, and is named rule-kind, dot, column; the enriched
\* output has total_rows rows and is the dataset's columns followed by the
\* flag columns, row for row.
C20_FlagsAligned ==
    /\ \A e \in Engines :
          LET rf == eng[e].row_flags
              df == eng[e].df
          IN  /\ rf.n = df.n
              /\ df.n = eng[e].total_rows
              /\ DOMAIN rf.data = Range(rf.columns)
              /\ Cardinality(Range(rf.columns)) = Len(rf.columns)
              /\ Range(rf.columns) \subseteq ItemFlagNames
              /\ \A name \in Range(rf.columns) : AlignedColumn(df, rf.data[name])
    /\ \A r \in Runs :
          run[r].ret.returned =>
              LET out == run[r].ret.enriched
                  e == run[r].engine
              IN  /\ out.n = eng[e].total_rows
                  /\ out.columns = callerDf.columns \o eng[e].row_flags.columns
                  /\ \A c \in Cols(callerDf) : out.data[c] = callerDf.data[c]
                  /\ \A name \in Range(eng[e].row_flags.columns) :
                        AlignedColumn(callerDf, out.data[name])

C20_Witness ==
    \E r \in Runs :
        /\ run[r].ret.returned
        /\ callerDf.n = MaxRows
        /\ run[r].ret.enriched.columns =
               <<"a", "b", "r", "uniq_mult.a.b", "cons_uplo_csv.r", "cons_uplo_csv.a">>
        /\ run[r].ret.enriched.data["uniq_mult.a.b"] = <<0, 0>>
        /\ run[r].ret.enriched.data["cons_uplo_csv.r"] = <<1, 1>>

NumericKinds == ValidityKinds \ {"vali_list_str"}

\* The rows of item w the registry table decides: the value is not null and,
\* for a rule that compares two columns, the compare_to value of the same row
\* is not null either.
Decided(df, w) ==
    {i \in Present(df, w.col) :
        w.rule \in ColumnKinds => ~IsNa(df.data[Param(w.params, "compare_to").s][i])}

\* The decision of the registry table on row i of item w
TablePasses(df, w, i) ==
    LET v == df.data[w.col][i].n
        p == w.params
    IN  CASE w.rule = "vali_val_pos"  -> v > 0
          [] w.rule = "vali_val_neg"  -> v < 0
          [] w.rule = "vali_val_rang" -> v \in Param(p, "min").n .. Param(p, "max").n
          [] w.rule = "vali_high_val" -> ~(v <= Param(p, "threshold").n)
          [] w.rule = "vali_low_val"  -> ~(v >= Param(p, "threshold").n)
          [] w.rule = "vali_high_col" -> ~(v <= df.data[Param(p, "compare_to").s][i].n)
          [] w.rule = "vali_low_col"  -> ~(v >= df.data[Param(p, "compare_to").s][i].n)

\* The value of row i of item w lies on a limit of the rule: 0, the
\* threshold, or the compare_to value of the row.
OnLimit(df, w, i) ==
    LET v == df.data[w.col][i].n
        p == w.params
    IN  CASE w.rule \in {"vali_val_pos", "vali_val_neg"}   -> v = 0
          [] w.rule \in {"vali_high_val", "vali_low_val"} -> v = Param(p, "threshold").n
          [] w.rule \in ColumnKinds -> v = df.data[Param(p, "compare_to").s][i].n
          [] OTHER -> FALSE

\* C21: once the validity phase has written its entry, for every item of a
\* numeric validity kind that has a flag column, the flag of a row with a
\* non-null value is 1 exactly when the registry table passes the value:
\* min <= value <= max for the range (a value equal to min or to max
\* passes), value > 0, value < 0, value > threshold, value < threshold (a
\* value equal to 0 or to the threshold fails), and value > or < the
\* compare_to value of the same row (an equal value fails).
C21_ValidityPredicates ==
    \A e \in Engines :
        "validity" \in DOMAIN Dims(e) =>
            \A w \in Range(Worklist(dim_map, "vali_")) :
                (w.rule \in NumericKinds /\ HasFlag(e, w)) =>
                    LET df == eng[e].df
                        flag == Flag(e, w.rule \o "." \o w.col)
                    IN  \A i \in Decided(df, w) :
                          /\ flag[i] = (IF TablePasses(df, w, i) THEN 1 ELSE 0)
                          /\ OnLimit(df, w, i) => flag[i] = 0
                          /\ (/\ w.rule = "vali_val_rang"
                              /\ Param(w.params, "min").n <= Param(w.params, "max").n
                              /\ df.data[w.col][i].n \in
                                     {Param(w.params, "min").n, Param(w.params, "max").n})
                                => flag[i] = 1

\* A returned run of greater-than-column a against b on the rows (1, 2) and
\* (2, 1): each value is compared with the b of its own row.
C21_Witness ==
    \E r \in Runs :
        /\ run[r].ret.returned
        /\ \E w \in Range(Worklist(dim_map, "vali_")) :
              w.rule = "vali_high_col" /\ w.col = "a" /\ Param(w.params, "compare_to").s = "b"
        /\ ColumnIs(callerDf, "a", <<Num(1), Num(2)>>)
        /\ ColumnIs(callerDf, "b", <<Num(2), Num(1)>>)
        /\ "vali_high_col.a" \in DOMAIN run[r].ret.enriched.data
        /\ run[r].ret.enriched.data["vali_high_col.a"] = <<0, 1>>

\* Two parameter mappings hold the same keys and values.
SameMapping(p, q) == Range(p) = Range(q)

\* The number of times run frame rn loaded a source under one of the keys
LoadsUnder(rn, k1, k2) ==
    (IF k1 \in DOMAIN rn.loads THEN rn.loads[k1] ELSE 0)
    + (IF k2 # k1 /\ k2 \in DOMAIN rn.loads THEN rn.loads[k2] ELSE 0)

\* C22: in one run, two consistency items of the same rule kind whose
\* parameter mappings hold the same keys and values, in whatever key order
\* they were written, use one cache entry: their source is loaded at most
\* once, and the later item is served from the cache.
C22_CanonicalCacheKey ==
    \A r \in Runs : \A w1, w2 \in Range(Worklist(dim_map, "cons_")) :
        (w1.rule = w2.rule /\ SameMapping(w1.params, w2.params)) =>
            LoadsUnder(run[r], CacheKey(w1.rule, w1.params),
                       CacheKey(w2.rule, w2.params)) <= 1

\* The sum of the col_perc values of the entries of a column map under the
\* keys ks
RECURSIVE SumPercs(_, _)
SumPercs(m, ks) ==
    IF ks = {} THEN 0
    ELSE LET k == CHOOSE x \in ks : TRUE
         IN  m[k].col_perc + SumPercs(m, ks \ {k})

\* C23: once a run has finished the validity or the consistency phase,
\* every item of the dimension that was evaluated (it has a flag column) has
\* an entry of its own rule kind in the column map of the dimension, the map
\* has as many entries as the dimension has flag columns, and dim_perc is
\* the mean of the col_perc values of the entries of the map, rounded to 2
\* decimals.
C23_EntryPerRuleAndColumn ==
    \A r \in Runs : \A d \in DOMAIN run[r].col_scores \cap {"validity", "consistency"} :
        LET e == run[r].engine
            m == Dims(e)[d].columns
        IN  /\ \A w \in RuleItems : (DimOf(w.rule) = d /\ HasFlag(e, w)) => HasEntry(e, w)
            /\ Cardinality(DOMAIN m) = Cardinality(FlagColumns(e, d))
            /\ DOMAIN m # {} =>
                  Rounded(Dims(e)[d].dim_perc, SumPercs(m, DOMAIN m), Cardinality(DOMAIN m))

\* C24: once the uniqueness phase has written its entry, for each single-key
\* column and each composite key with statistics, every row outside the
\* evaluated population (a row with a null in a key column) has flag 1,
\* however many other rows have a null there too.
C24_NullKeyNeverFlagged ==
    \A e \in Engines :
        "uniqueness" \in DOMAIN Dims(e) =>
            LET sing == Dims(e)["uniqueness"].uniq_sing
                mult == Dims(e)["uniqueness"].uniq_mult
                df == eng[e].df
            IN  /\ \A col \in DOMAIN sing :
                      \A i \in Idx(df) \ Evaluated(df, <<col>>) :
                          Flag(e, "uniq_sing." \o col)[i] = 1
                /\ \A key \in DOMAIN mult :
                      \A i \in Idx(df) \ Evaluated(df, mult[key].columns_used) :
                          Flag(e, "uniq_mult." \o key)[i] = 1

\* The connection of the resolution a run frame is in or was in last: it is
\* open only while the query runs, and one exists only after an attempt
\* connected.
ConnectionShape(rn) ==
    /\ rn.conn = "open" <=> rn.pc = "query"
    /\ rn.conn = "none" <=> "connected" \notin Range(rn.trace)
    /\ rn.conn \in {"none", "open", "closed", "close_failed"}

\* The step of run r that leaves the query: close() was called on the
\* connection, and the run goes on with the set the query returned, or is
\* aborted by the exception of the query, whether or not close() failed.
QueryLeaves(r) ==
    (run[r].pc = "query" /\ run'[r] # run[r]) =>
        LET w == Head(run[r].work) IN
        /\ run'[r].conn \in {"closed", "close_failed"}
        /\ \/ /\ run'[r].pc = "aborted"
              /\ run'[r].err = "DatabaseError"
              /\ run'[r].cache = run[r].cache
           \/ /\ run'[r].pc = "cons_loop"
              /\ run'[r].err = "none"
              /\ run[r].sqlkey \in DOMAIN run'[r].cache
              /\ run'[r].cache[run[r].sqlkey] =
                     RefSet(RefSql(Param(w.params, "table").s, Param(w.params, "ref_col").s))

\* C25: a connection _load_from_sql obtained is open only while the query
\* runs; when the query returns or raises, close() has been called on it
\* before the function is left, and the set or the exception of the query
\* is the outcome even when close() itself fails; a resolution that obtained
\* no connection closes nothing.
C25_ConnectionClosed ==
    /\ [](\A r \in Runs : ConnectionShape(run[r]))
    /\ [][\A r \in Runs : QueryLeaves(r)]_vars

\* A returned run whose query was answered and whose close() failed: the
\* answer is in the cache.
C25_Witness ==
    \E r \in Runs :
        /\ run[r].ret.returned
        /\ run[r].conn = "close_failed"
        /\ run[r].sqlkey \in DOMAIN run[r].cache
        /\ run[r].cache[run[r].sqlkey] = {"PM", "SB"}

\* With the parameters written in one key order the second item is a hit.
C22_SameOrderHit ==
    \A r \in Runs : \A w1, w2 \in Range(Worklist(dim_map, "cons_")) :
        (w1.rule = w2.rule /\ w1.params = w2.params) =>
            LoadsUnder(run[r], CacheKey(w1.rule, w1.params),
                       CacheKey(w2.rule, w2.params)) <= 1

====
